---- MODULE Spec2Model ----
(***************************************************************************)
(* hex3world: the two utility scripts of the repository.                   *)
(*                                                                         *)
(*   Spec        src/serve.py: main() from the port scan to its exit, with *)
(*               the other processes of the host binding and releasing     *)
(*               ports.                                                    *)
(*   ServeSpec   src/serve.py: serve_forever() and the request handler     *)
(*               CORSRequestHandler, with clients sending GET requests.    *)
(*   GenSpec     src/scripts/generate_simple_stl.py: the triangle builders *)
(*               and write_stl_ascii, applied to inputs drawn from bounded *)
(*               sets.                                                     *)
(*   NormalSpec  write_stl_ascii on single triangles with coordinates over *)
(*               the whole range of the floating-point format.             *)
(***************************************************************************)
EXTENDS Integers, Sequences, FiniteSets, TLC

VARIABLES
    \* ---- serve.py ----
    pc,          \* position of main(): "scan", "chdir", "create", "serving",
                 \* "exited"
    port,        \* loop variable of find_free_port
    probes,      \* history: the transient binds made so far, in order
    held,        \* ports bound by sockets of this process that are still open
    selected,    \* the value find_free_port returned (NoPort before)
    cwd,         \* working directory of the process
    httpd,       \* port of the listening TCPServer (NoPort: not created)
    exitStatus,  \* process exit status (Running before exit)
    exitFrom,    \* value of pc when the process exited, and why
    busy,        \* ports bound by other processes
    envSteps,    \* number of binds/releases other processes have made
    reqPath,     \* self.path of the last GET request handled
    wire,        \* what the handler wrote to the client for that request
    opened,      \* absolute path of the file the '.stl' branch opened
    openResult,  \* outcome of that open(): "none", "ok", "ENOENT", ...
    \* ---- generate_simple_stl.py ----
    gpc,         \* "input", "built", "header", "facets", "done", "raised"
    job,         \* the call under consideration
    triangles,   \* the mesh handed to write_stl_ascii
    filename,    \* its filename argument, as path components
    lines,       \* the lines written to the file so far
    normals,     \* history: per facet written, the cross product and the normal
    ti           \* index of the next triangle of the writer's loop

serveVars == <<pc, port, probes, held, selected, cwd, httpd, exitStatus, exitFrom,
               busy, envSteps, reqPath, wire, opened, openResult>>
genVars == <<gpc, job, triangles, filename, lines, normals, ti>>
vars == <<serveVars, genVars>>

(***************************************************************************)
(* Bounds of the model.                                                    *)
(***************************************************************************)
MaxPrefix == 6       \* initial port patterns vary over the first MaxPrefix+1 ports
MaxEnvSteps == 1     \* binds/releases by other processes per run
EnvReach == 1        \* ... on ports at most this far from the scan's cursor
MaxPathLen == 4      \* tokens of a request path

(***************************************************************************)
(* serve.py: constants                                                     *)
(***************************************************************************)
StartPort == 8000
ScanWindow == 100
NoPort == 0
Running == 0 - 1
Range == StartPort .. (StartPort + ScanWindow - 1)

\* Directories and files are absolute paths: sequences of names below "/".
LaunchDir == <<>>
ScriptDir == <<"proj">>
Dirs == {<<>>, <<"proj">>, <<"proj", "assets">>}
FileUniverse == {<<"proj", "m.stl">>, <<"proj", "assets", "m.stl">>,
                 <<"m.stl">>, <<"proj", "index.html">>}

\* Request paths are sequences of tokens: the separator, "..", and names.
Names == {"assets", "m.stl", "index.html"}
Tokens == {"/", ".."} \cup Names
StlNames == {"m.stl"}

SeqsUpTo(S, n) == UNION {[1..k -> S] : k \in 0..n}

\* Origin-form request targets: they start with "/", and two names are
\* always separated by a "/".
Paths == {p \in SeqsUpTo(Tokens, MaxPathLen) :
            /\ Len(p) >= 1
            /\ p[1] = "/"
            /\ \A i \in 1..(Len(p) - 1) : p[i] # "/" => p[i + 1] = "/"}

(***************************************************************************)
(* serve.py: find_free_port and main                                       *)
(***************************************************************************)
\* socket.bind(('', p)) succeeds when no open socket, of this process or of
\* another, is bound to the port.
BindSucceeds(p, b) == p \notin b

\* range(start_port, start_port + 100): the first port the loop does not test.
ScanEndOffByOne == StartPort + ScanWindow - 1
ScanEnd == StartPort + ScanWindow

\* "return port" inside the loop body returns the loop variable.
ReturnPortAfter(p) == p + 1
ReturnedPort(p) == p

\* Leaving "with socket.socket(...) as s" closes the test socket, on return as
\* on OSError.
CloseTestSocket(h, p) == h \ {p}

Probe(p, ok) == [port |-> p, ok |-> ok]
ExitInfo(at, why) == [at |-> at, why |-> why]
NoExit == ExitInfo("none", "none")

\* One iteration of the for loop of find_free_port, and what follows the loop:
\* raise OSError, which main catches to print and sys.exit(1).
find_free_port ==
    /\ pc = "scan"
    /\ \/ /\ port < ScanEnd
          /\ BindSucceeds(port, busy \cup held)
          /\ probes' = Append(probes, Probe(port, TRUE))
          /\ held' = CloseTestSocket(held \cup {port}, port)
          /\ selected' = ReturnedPort(port)
          /\ pc' = "chdir"
          /\ UNCHANGED <<port, exitStatus, exitFrom>>
       \/ /\ port < ScanEnd
          /\ ~BindSucceeds(port, busy \cup held)
          /\ probes' = Append(probes, Probe(port, FALSE))
          /\ held' = CloseTestSocket(held, port)
          /\ port' = port + 1
          /\ UNCHANGED <<selected, pc, exitStatus, exitFrom>>
       \/ /\ port >= ScanEnd
          /\ pc' = "exited"
          /\ exitStatus' = 1
          /\ exitFrom' = ExitInfo("scan", "no free port")
          /\ UNCHANGED <<port, probes, held, selected>>
    /\ UNCHANGED <<cwd, httpd, busy, envSteps, reqPath, wire, opened, openResult>>
    /\ UNCHANGED genVars

\* os.chdir(os.path.dirname(os.path.abspath(__file__)))
main_chdir ==
    /\ pc = "chdir"
    /\ cwd' = ScriptDir
    /\ pc' = "create"
    /\ UNCHANGED <<port, probes, held, selected, httpd, exitStatus, exitFrom,
                   busy, envSteps, reqPath, wire, opened, openResult>>
    /\ UNCHANGED genVars

\* socketserver.TCPServer(("", port), CORSRequestHandler) binds and listens in
\* its constructor; an OSError there is caught by nobody, and the interpreter
\* ends with a traceback and status 1. Once bound, main prints its banner and
\* enters serve_forever().
main_TCPServer ==
    /\ pc = "create"
    /\ \/ /\ BindSucceeds(selected, busy \cup held)
          /\ httpd' = selected
          /\ held' = held \cup {selected}
          /\ pc' = "serving"
          /\ UNCHANGED <<exitStatus, exitFrom>>
       \/ /\ ~BindSucceeds(selected, busy \cup held)
          /\ pc' = "exited"
          /\ exitStatus' = 1
          /\ exitFrom' = ExitInfo("create", "OSError")
          /\ UNCHANGED <<httpd, held>>
    /\ UNCHANGED <<port, probes, selected, cwd, busy, envSteps,
                   reqPath, wire, opened, openResult>>
    /\ UNCHANGED genVars

\* KeyboardInterrupt. Inside serve_forever() it is caught: print, sys.exit(0),
\* and the with statement closes the server socket. Anywhere else nothing
\* catches it: the interpreter ends with status 1 or, re-raising SIGINT, with
\* the shell's 130.
UncaughtInterruptStatus == {1, 130}

KeyboardInterrupt ==
    /\ \/ /\ pc = "serving"
          /\ exitStatus' = 0
          /\ exitFrom' = ExitInfo("serving", "KeyboardInterrupt")
          /\ held' = held \ {httpd}
       \/ /\ pc \in {"scan", "chdir", "create"}
          /\ exitStatus' \in UncaughtInterruptStatus
          /\ exitFrom' = ExitInfo(pc, "KeyboardInterrupt")
          /\ UNCHANGED held
    /\ pc' = "exited"
    /\ UNCHANGED <<port, probes, selected, cwd, httpd, busy, envSteps,
                   reqPath, wire, opened, openResult>>
    /\ UNCHANGED genVars

(***************************************************************************)
(* The other processes of the host bind and release ports.  busy is read   *)
(* by the bind() calls of find_free_port and of the TCPServer constructor  *)
(* only, so what the others do once the server is listening is left out.   *)
(***************************************************************************)
BindsAhead == pc \in {"scan", "chdir", "create"}

NearCursor(p) == p \in Range /\ p >= port - EnvReach /\ p <= port + EnvReach

OtherBind ==
    /\ BindsAhead
    /\ envSteps < MaxEnvSteps
    /\ \E p \in Range :
          /\ NearCursor(p)
          /\ p \notin busy
          /\ p \notin held
          /\ busy' = busy \cup {p}
    /\ envSteps' = envSteps + 1
    /\ UNCHANGED <<pc, port, probes, held, selected, cwd, httpd, exitStatus,
                   exitFrom, reqPath, wire, opened, openResult>>
    /\ UNCHANGED genVars

OtherRelease ==
    /\ BindsAhead
    /\ envSteps < MaxEnvSteps
    /\ \E p \in busy :
          /\ NearCursor(p)
          /\ busy' = busy \ {p}
    /\ envSteps' = envSteps + 1
    /\ UNCHANGED <<pc, port, probes, held, selected, cwd, httpd, exitStatus,
                   exitFrom, reqPath, wire, opened, openResult>>
    /\ UNCHANGED genVars

(***************************************************************************)
(* serve.py: CORSRequestHandler                                            *)
(***************************************************************************)
\* What the handler writes to the client, item by item.
StatusLine(c) == [kind |-> "status", code |-> c, name |-> "", value |-> "", src |-> <<>>]
Header(n, v) == [kind |-> "header", code |-> 0, name |-> n, value |-> v, src |-> <<>>]
HeadersEnd == [kind |-> "end", code |-> 0, name |-> "", value |-> "", src |-> <<>>]
Body(f) == [kind |-> "body", code |-> 0, name |-> "", value |-> "", src |-> f]
ErrorPage == <<"<error page>">>
Listing == <<"<directory listing>">>

\* BaseHTTPRequestHandler.send_response: the status line (its Server and Date
\* headers are left out).
send_response(c) == <<StatusLine(c)>>
send_header(n, v) == <<Header(n, v)>>

\* CORSRequestHandler.end_headers: the CORS header, then the base class's
\* end_headers, which ends the header block and flushes it.
end_headers == send_header("Access-Control-Allow-Origin", "*") \o <<HeadersEnd>>

\* BaseHTTPRequestHandler.send_error: a complete error response, through the
\* handler's own send_response and end_headers.
send_error(c) ==
    send_response(c)
      \o send_header("Connection", "close")
      \o send_header("Content-Type", "text/html;charset=utf-8")
      \o end_headers
      \o <<Body(ErrorPage)>>

\* self.path.endswith('.stl')
EndsWithStl(path) == Len(path) >= 1 /\ path[Len(path)] \in StlNames

\* self.path[1:]: the path without its first character.
StripLeadingSlash(path) == Tail(path)

\* The names of a path between its separators (empty ones dropped).
Components(rel) == SelectSeq(rel, LAMBDA t : t # "/")

Parent(dir) == IF dir = <<>> THEN <<>> ELSE SubSeq(dir, 1, Len(dir) - 1)

\* The kernel's path walk from directory dir: ".." is the parent (of "/",
\* "/" itself), and every name before the last must be a directory.
RECURSIVE Walk(_, _, _)
Walk(dir, comps, files) ==
    IF comps = <<>> THEN [err |-> "ok", at |-> dir]
    ELSE LET c == Head(comps)
             next == IF c = ".." THEN Parent(dir) ELSE Append(dir, c)
         IN  IF Len(comps) = 1 THEN [err |-> "ok", at |-> next]
             ELSE IF next \in Dirs THEN Walk(next, Tail(comps), files)
             ELSE IF next \in files THEN [err |-> "ENOTDIR", at |-> next]
             ELSE [err |-> "ENOENT", at |-> next]

\* open(rel, 'rb') in working directory wd: a path that starts with the
\* separator is absolute, any other is relative to wd.
Open(wd, rel, files) ==
    IF rel = <<>> THEN [err |-> "ENOENT", at |-> <<>>]
    ELSE LET w == Walk(IF Head(rel) = "/" THEN <<>> ELSE wd, Components(rel), files)
         IN  IF w.err # "ok" THEN w
             ELSE IF w.at \in files THEN w
             ELSE IF w.at \in Dirs THEN [err |-> "EISDIR", at |-> w.at]
             ELSE [err |-> "ENOENT", at |-> w.at]

\* SimpleHTTPRequestHandler.translate_path: posixpath.normpath, then every
\* remaining "..", "." and empty word is dropped and the rest is joined
\* below the working directory.
RECURSIVE Normpath(_, _)
Normpath(done, comps) ==
    IF comps = <<>> THEN done
    ELSE IF Head(comps) = ".." THEN Normpath(Parent(done), Tail(comps))
    ELSE Normpath(Append(done, Head(comps)), Tail(comps))

translate_path(wd, path) == wd \o Normpath(<<>>, Components(path))

\* super().do_GET(): SimpleHTTPRequestHandler serves the translated path.
SimpleHTTPRequestHandler_do_GET(wd, path, files) ==
    LET f == translate_path(wd, path)
    IN  IF f \in files
          THEN [wire |-> send_response(200)
                           \o send_header("Content-type", "guessed")
                           \o end_headers \o <<Body(f)>>,
                opened |-> <<>>, res |-> "none"]
        ELSE IF f \in Dirs /\ path[Len(path)] # "/"
          THEN [wire |-> send_response(301)
                           \o send_header("Location", "path/")
                           \o end_headers,
                opened |-> <<>>, res |-> "none"]
        ELSE IF f \in Dirs
          THEN [wire |-> send_response(200)
                           \o send_header("Content-type", "text/html")
                           \o end_headers \o <<Body(Listing)>>,
                opened |-> <<>>, res |-> "none"]
        ELSE [wire |-> send_error(404), opened |-> <<>>, res |-> "none"]

\* The '.stl' branch up to and including its end_headers() call.
StlHead ==
    send_response(200)
      \o send_header("Content-type", "application/octet-stream")
      \o send_header("Access-Control-Allow-Origin", "*")
      \o end_headers

\* CORSRequestHandler.do_GET on self.path = path, with working directory wd and
\* the files that exist at that moment. FileNotFoundError is the only
\* exception caught; any other OSError leaves the handler after the header
\* block and socketserver logs it and goes on serving.
CORSRequestHandler_do_GET(wd, path, files) ==
    IF EndsWithStl(path)
      THEN LET o == Open(wd, StripLeadingSlash(path), files)
           IN  IF o.err = "ok"
                 THEN [wire |-> StlHead \o <<Body(o.at)>>, opened |-> o.at, res |-> "ok"]
               ELSE IF o.err = "ENOENT"
                 THEN [wire |-> StlHead \o send_error(404), opened |-> <<>>, res |-> "ENOENT"]
               ELSE [wire |-> StlHead, opened |-> <<>>, res |-> o.err]
    ELSE SimpleHTTPRequestHandler_do_GET(wd, path, files)

\* BaseHTTPRequestHandler.parse_request: interpreters with the fix for
\* CVE-2021-28861 reduce a run of leading separators to one before do_GET
\* sees self.path; older ones pass the target on as sent.
RECURSIVE CollapseLeading(_)
CollapseLeading(path) ==
    IF Len(path) >= 2 /\ path[1] = "/" /\ path[2] = "/"
      THEN CollapseLeading(Tail(path))
    ELSE path

\* One GET request handled inside serve_forever(): the server handles one
\* connection at a time, with a handler object of its own.
do_GET ==
    /\ pc = "serving"
    /\ reqPath = <<>>
    /\ \E target \in Paths, files \in SUBSET FileUniverse, fixed \in BOOLEAN :
          LET path == IF fixed THEN CollapseLeading(target) ELSE target
              r == CORSRequestHandler_do_GET(cwd, path, files)
          IN  /\ reqPath' = path
              /\ wire' = r.wire
              /\ opened' = r.opened
              /\ openResult' = r.res
    /\ UNCHANGED <<pc, port, probes, held, selected, cwd, httpd, exitStatus,
                   exitFrom, busy, envSteps>>
    /\ UNCHANGED genVars

\* socketserver's finish_request/shutdown_request: the connection is closed and
\* the handler object dropped.
shutdown_request ==
    /\ pc = "serving"
    /\ reqPath # <<>>
    /\ reqPath' = <<>>
    /\ wire' = <<>>
    /\ opened' = <<>>
    /\ openResult' = "none"
    /\ UNCHANGED <<pc, port, probes, held, selected, cwd, httpd, exitStatus,
                   exitFrom, busy, envSteps>>
    /\ UNCHANGED genVars

\* busy at start: the first k ports of the window, or all of the window but
\* one of its first ports.
Prefix(k) == StartPort .. (StartPort + k - 1)
InitBusy == {Prefix(k) : k \in 0..MaxPrefix} \cup {Range}
              \cup {Range \ {StartPort + k} : k \in 0..MaxPrefix}

GenIdle ==
    /\ gpc = "idle"
    /\ job = [kind |-> "none", radius |-> 0, height |-> 0, tris |-> <<>>,
              filename |-> <<>>, writable |-> FALSE]
    /\ triangles = <<>>
    /\ filename = <<>>
    /\ lines = <<>>
    /\ normals = <<>>
    /\ ti = 0

Init ==
    /\ pc = "scan"
    /\ port = StartPort
    /\ probes = <<>>
    /\ held = {}
    /\ selected = NoPort
    /\ cwd = LaunchDir
    /\ httpd = NoPort
    /\ exitStatus = Running
    /\ exitFrom = NoExit
    /\ busy \in InitBusy
    /\ envSteps = 0
    /\ reqPath = <<>>
    /\ wire = <<>>
    /\ opened = <<>>
    /\ openResult = "none"
    /\ GenIdle

\* main from its first statement to its exit, among the other processes.
Next ==
    \/ find_free_port
    \/ main_chdir
    \/ main_TCPServer
    \/ KeyboardInterrupt
    \/ OtherBind
    \/ OtherRelease

Spec == Init /\ [][Next]_vars

\* serve_forever() handling requests: the states main is in when the first k
\* ports of the window were taken, the scan chose the next one and the server
\* is listening on it; the directory tree below is whatever it is at each
\* request.
ListeningAfter(k) ==
    /\ pc = "serving"
    /\ port = StartPort + k
    /\ probes = [i \in 1..(k + 1) |-> Probe(StartPort + i - 1, i = k + 1)]
    /\ held = {StartPort + k}
    /\ selected = StartPort + k
    /\ cwd = ScriptDir
    /\ httpd = StartPort + k
    /\ exitStatus = Running
    /\ exitFrom = NoExit
    /\ busy = Prefix(k)
    /\ envSteps = 0
    /\ reqPath = <<>>
    /\ wire = <<>>
    /\ opened = <<>>
    /\ openResult = "none"
    /\ GenIdle

Listening == \E k \in 0..MaxPrefix : ListeningAfter(k)

serve_forever ==
    \/ do_GET
    \/ shutdown_request

ServeSpec == Listening /\ [][serve_forever]_vars

(***************************************************************************)
(* generate_simple_stl.py: Python floats                                   *)
(*                                                                         *)
(* A binary floating-point format with the rules of the IEEE 754 format    *)
(* behind Python's float (round to nearest, ties to even; gradual          *)
(* underflow to zero; overflow to infinity; NaN) and a narrower mantissa   *)
(* and exponent range.  A finite value is the integer number of units of   *)
(* 2^-UnitExp it holds, so 1.0 is One.  The sign of zero is not modelled.  *)
(***************************************************************************)
UnitExp == 6         \* the smallest positive value is 2^-UnitExp
MantBits == 5        \* bits of the mantissa
ExpSpan == 6         \* number of binades above the subnormal one

One == 2 ^ UnitExp
MaxFinite == (2 ^ MantBits - 1) * 2 ^ ExpSpan
PosInf == MaxFinite + 1
NegInf == 0 - PosInf
NaN == MaxFinite + 2

IsFinite(x) == x \notin {PosInf, NegInf, NaN}
Abs(x) == IF x < 0 THEN 0 - x ELSE x

\* The spacing of the format's values at x >= 0: one unit in the subnormal
\* and the first normal binade, doubling with each binade above.
RECURSIVE UlpFrom(_, _)
UlpFrom(x, u) == IF x < 2 ^ MantBits * u THEN u ELSE UlpFrom(x, 2 * u)
Ulp(x) == UlpFrom(x, 1)

\* p/q units (p >= 0, q > 0) rounded to the nearest value of the format, a
\* tie to the one with the even mantissa; infinity from half a spacing above
\* the largest value on.
RoundPos(p, q) ==
    IF 2 * p >= (2 * MaxFinite + 2 ^ ExpSpan) * q THEN PosInf
    ELSE LET u == Ulp(p \div q)
             lo == ((p \div q) \div u) * u
             twice == 2 * (p - lo * q)
         IN  IF twice < u * q THEN lo
             ELSE IF twice > u * q THEN lo + u
             ELSE IF (lo \div u) % 2 = 0 THEN lo
             ELSE lo + u

Round(p, q) == IF p >= 0 THEN RoundPos(p, q) ELSE 0 - RoundPos(0 - p, q)

\* A decimal literal p/q of the source, as the float the interpreter reads.
Lit(p, q) == Round(p * One, q)

FNeg(a) == IF a = NaN THEN NaN ELSE 0 - a

FAdd(a, b) ==
    IF a = NaN \/ b = NaN THEN NaN
    ELSE IF ~IsFinite(a) /\ ~IsFinite(b) THEN (IF a = b THEN a ELSE NaN)
    ELSE IF ~IsFinite(a) THEN a
    ELSE IF ~IsFinite(b) THEN b
    ELSE Round(a + b, 1)

FSub(a, b) == FAdd(a, FNeg(b))

FMul(a, b) ==
    IF a = NaN \/ b = NaN THEN NaN
    ELSE IF ~IsFinite(a) \/ ~IsFinite(b)
      THEN IF a = 0 \/ b = 0 THEN NaN
           ELSE IF (a > 0) = (b > 0) THEN PosInf ELSE NegInf
    ELSE Round(a * b, One)

\* a / b for b # 0 (the source divides by a literal and by a length it has
\* tested to be positive).
FDiv(a, b) ==
    IF a = NaN \/ b = NaN THEN NaN
    ELSE IF ~IsFinite(a) /\ ~IsFinite(b) THEN NaN
    ELSE IF ~IsFinite(b) THEN 0
    ELSE IF ~IsFinite(a) THEN (IF (a > 0) = (b > 0) THEN PosInf ELSE NegInf)
    ELSE IF b > 0 THEN Round(a * One, b)
    ELSE Round(0 - a * One, 0 - b)

\* the integer part of the square root of n >= 0
RECURSIVE ISqrtIn(_, _, _)
ISqrtIn(n, lo, hi) ==
    IF lo >= hi THEN lo
    ELSE LET mid == (lo + hi + 1) \div 2
         IN  IF mid * mid <= n THEN ISqrtIn(n, mid, hi) ELSE ISqrtIn(n, lo, mid - 1)
ISqrt(n) == ISqrtIn(n, 0, IF n < 46340 THEN n ELSE 46340)

\* math.sqrt of a >= 0, correctly rounded.
FSqrt(a) ==
    IF a = NaN THEN NaN
    ELSE IF a = PosInf THEN PosInf
    ELSE LET n == a * One
             s == ISqrt(n)
             u == Ulp(s)
             lo == (s \div u) * u
             m2 == (2 * lo + u) * (2 * lo + u)
         IN  IF 4 * n < m2 THEN lo
             ELSE IF 4 * n > m2 THEN lo + u
             ELSE IF (lo \div u) % 2 = 0 THEN lo
             ELSE lo + u

\* x > 0: false for NaN.
FGt0(x) == x # NaN /\ x > 0

\* format(x, '.6f'): the sign, the whole part and six decimals, rounded half
\* to even on the exact value; 'inf', '-inf' and 'nan' for the rest.
Fmt6(x) ==
    IF x = NaN THEN [txt |-> "nan", neg |-> FALSE, whole |-> 0, frac |-> 0]
    ELSE IF x = PosInf THEN [txt |-> "inf", neg |-> FALSE, whole |-> 0, frac |-> 0]
    ELSE IF x = NegInf THEN [txt |-> "inf", neg |-> TRUE, whole |-> 0, frac |-> 0]
    ELSE LET a == Abs(x)
             f == (a % One) * 1000000
             q == f \div One
             r == f % One
             up == 2 * r > One \/ (2 * r = One /\ q % 2 = 1)
         IN  [txt |-> "num", neg |-> x < 0, whole |-> a \div One,
              frac |-> IF up THEN q + 1 ELSE q]


(***************************************************************************)
(* generate_simple_stl.py: the triangle builders                           *)
(***************************************************************************)
\* math.cos and math.sin at angle (pi/6) - (i*pi/3), i = 0..5: 30, -30, -90,
\* -150, 150 and 90 degrees.  sqrt(3)/2 is read as 1170/1351.
Cos30 == Lit(1170, 1351)
Half == Lit(1, 2)
CosAt(i) == <<Cos30, Cos30, 0, 0 - Cos30, 0 - Cos30, 0>>[i + 1]
SinAt(i) == <<Half, 0 - Half, 0 - One, 0 - Half, Half, One>>[i + 1]

\* hex_bottom and hex_top: entry i + 1 is the source's vertex i.
hex_bottom(radius) ==
    [k \in 1..6 |-> <<FMul(radius, CosAt(k - 1)), FMul(radius, SinAt(k - 1)), 0>>]
hex_top(radius, height) ==
    [k \in 1..6 |-> <<FMul(radius, CosAt(k - 1)), FMul(radius, SinAt(k - 1)), height>>]

NextI(k, n) == (k % n) + 1

\* Bottom face: [center_bottom, hex_bottom[next_i], hex_bottom[i]]
HexBottomFace(radius) ==
    LET hb == hex_bottom(radius)
    IN  [k \in 1..6 |-> <<(<<0, 0, 0>>), hb[NextI(k, 6)], hb[k]>>]

\* Top face: [center_top, hex_top[i], hex_top[next_i]]
HexTopFace(radius, height) ==
    LET ht == hex_top(radius, height)
    IN  [k \in 1..6 |-> <<(<<0, 0, height>>), ht[k], ht[NextI(k, 6)]>>]

\* Side faces, two triangles per side:
\*   [hex_bottom[i], hex_top[i], hex_bottom[next_i]]
\*   [hex_bottom[next_i], hex_top[i], hex_top[next_i]]
HexSideFacesOnePerSide(radius, height) ==
    LET hb == hex_bottom(radius)
        ht == hex_top(radius, height)
    IN  [k \in 1..6 |-> <<hb[k], ht[k], hb[NextI(k, 6)]>>]
HexSideFaces(radius, height) ==
    LET hb == hex_bottom(radius)
        ht == hex_top(radius, height)
    IN  [j \in 1..12 |->
           LET k == (j + 1) \div 2
           IN  IF j % 2 = 1 THEN <<hb[k], ht[k], hb[NextI(k, 6)]>>
               ELSE <<hb[NextI(k, 6)], ht[k], ht[NextI(k, 6)]>>]

create_hexagon_triangles(radius, height) ==
    HexBottomFace(radius) \o HexTopFace(radius, height) \o HexSideFaces(radius, height)

\* faces of 0-based vertex indices, applied to a vertex list
FacesOf(verts, faces) ==
    [k \in 1..Len(faces) |->
        <<verts[faces[k][1] + 1], verts[faces[k][2] + 1], verts[faces[k][3] + 1]>>]

trunk_width == Lit(1, 10)
trunk_height == Lit(3, 10)
leaves_radius == Lit(3, 10)

trunk_verts ==
    LET w == FDiv(trunk_width, Lit(2, 1))
        h == trunk_height
    IN  << <<0 - w, 0 - w, 0>>, <<w, 0 - w, 0>>, <<w, w, 0>>, <<0 - w, w, 0>>,
           <<0 - w, 0 - w, h>>, <<w, 0 - w, h>>, <<w, w, h>>, <<0 - w, w, h>> >>

trunk_faces ==
    << <<0, 1, 2>>, <<0, 2, 3>>,
       <<4, 6, 5>>, <<4, 7, 6>>,
       <<0, 4, 1>>, <<1, 4, 5>>,
       <<2, 6, 3>>, <<3, 6, 7>>,
       <<0, 3, 4>>, <<3, 7, 4>>,
       <<1, 5, 2>>, <<2, 5, 6>> >>

leaves_verts ==
    LET r == leaves_radius
        mh == FDiv(FNeg(r), Lit(2, 1))
        s == FMul(r, Lit(433, 500))
    IN  << <<r, 0, trunk_height>>,
           <<mh, s, trunk_height>>,
           <<mh, FNeg(s), trunk_height>>,
           <<0, 0, FAdd(trunk_height, Lit(2, 5))>> >>

leaves_faces == << <<0, 1, 2>>, <<0, 3, 1>>, <<1, 3, 2>>, <<2, 3, 0>> >>

TrunkTriangles == FacesOf(trunk_verts, trunk_faces)
LeavesTriangles == FacesOf(leaves_verts, leaves_faces)
create_simple_tree_triangles == TrunkTriangles \o LeavesTriangles

base_verts ==
    << <<Lit(3, 20), Lit(1, 10), 0>>,
       <<0 - Lit(1, 10), Lit(3, 25), 0>>,
       <<0 - Lit(3, 25), 0 - Lit(2, 25), 0>>,
       <<Lit(1, 10), 0 - Lit(1, 10), 0>> >>
top == <<Lit(1, 50), Lit(1, 100), Lit(3, 25)>>

RockBase == << <<base_verts[1], base_verts[3], base_verts[2]>>,
               <<base_verts[1], base_verts[4], base_verts[3]>> >>
RockSides == [k \in 1..4 |-> <<base_verts[k], top, base_verts[NextI(k, 4)]>>]
create_simple_rock_triangles == RockBase \o RockSides


(***************************************************************************)
(* generate_simple_stl.py: write_stl_ascii                                 *)
(***************************************************************************)
Line(kind, name, vals) == [kind |-> kind, name |-> name, vals |-> vals]

\* os.path.basename of a path given by its components
Basename(f) == f[Len(f)]

Vec(a, b) == [i \in 1..3 |-> FSub(b[i], a[i])]

\* normal = v1 x v2, component by component as the source computes it
Cross(v1, v2) ==
    << FSub(FMul(v1[2], v2[3]), FMul(v1[3], v2[2])),
       FSub(FMul(v1[3], v2[1]), FMul(v1[1], v2[3])),
       FSub(FMul(v1[1], v2[2]), FMul(v1[2], v2[1])) >>

\* math.sqrt(sum(n*n for n in normal)): sum() adds from the left, starting at 0
Length(n) == FSqrt(FAdd(FAdd(FMul(n[1], n[1]), FMul(n[2], n[2])), FMul(n[3], n[3])))

Normalize(n) ==
    LET length == Length(n)
    IN  IF FGt0(length) THEN [i \in 1..3 |-> FDiv(n[i], length)]
        ELSE <<0, 0, One>>

FacetNormal(triangle) ==
    Normalize(Cross(Vec(triangle[1], triangle[2]), Vec(triangle[1], triangle[3])))

FmtAll(v) == [i \in 1..Len(v) |-> Fmt6(v[i])]

\* "for vertex in triangle": one vertex line per vertex, in the triangle's order
VertexLinesReversed(triangle) ==
    [k \in 1..Len(triangle) |->
        Line("vertex", "", FmtAll(triangle[Len(triangle) + 1 - k]))]
VertexLines(triangle) ==
    [k \in 1..Len(triangle) |-> Line("vertex", "", FmtAll(triangle[k]))]

FacetBlock(triangle) ==
    <<Line("facet normal", "", FmtAll(FacetNormal(triangle))),
      Line("outer loop", "", <<>>)>>
      \o VertexLines(triangle)
      \o <<Line("endloop", "", <<>>), Line("endfacet", "", <<>>)>>

(***************************************************************************)
(* The calls considered: each builder with its parameters, and              *)
(* write_stl_ascii on the builder's mesh or on a mesh given by the caller.  *)
(***************************************************************************)
MaxTris == 2         \* triangles of a mesh given by the caller

Radii == {One, 0, 0 - One, Lit(1, 2), Lit(2, 1)}
Heights == {Lit(1, 20), Lit(1, 50), Lit(3, 100), Lit(1, 25), 0, 0 - Lit(1, 20), One}
Filenames == {<<"grass_hex.stl">>, <<"assets", "models", "small_rock.stl">>}

Origin == <<0, 0, 0>>
Ex == <<One, 0, 0>>
Ey == <<0, One, 0>>
Ez == <<0, 0, One>>
SmallTriangles == {<<Origin, Ex, Ey>>, <<Ex, Ez, Ey>>, <<Ex, Ex, Ex>>}

\* Coordinates across the whole range of the format: zero, the smallest
\* positive value, 1.0, and the largest power of two.
Huge == 2 ^ (ExpSpan + MantBits - 1)
WideCoords == {0, 1, One, Huge}
WidePoints == {<<x, y, z>> : x \in WideCoords, y \in WideCoords, z \in WideCoords}
WideTriangles == {<<p0, p1, p2>> : p0 \in {Origin, <<One, One, One>>},
                                   p1 \in WidePoints, p2 \in WidePoints}

Job(kind, radius, height, tris, f, writable) ==
    [kind |-> kind, radius |-> radius, height |-> height, tris |-> tris,
     filename |-> f, writable |-> writable]

Jobs ==
    {Job("hexagon", r, h, <<>>, <<"grass_hex.stl">>, TRUE) : r \in Radii, h \in Heights}
      \cup {Job(k, 0, 0, <<>>, f, w) :
              k \in {"tree", "rock"}, f \in Filenames, w \in BOOLEAN}
      \cup {Job("given", 0, 0, m, f, TRUE) :
              m \in SeqsUpTo(SmallTriangles, MaxTris), f \in Filenames}

\* write_stl_ascii on one triangle of any shape and size
NormalJobs == {Job("given", 0, 0, <<t>>, <<"grass_hex.stl">>, TRUE) : t \in WideTriangles}

ServeIdle ==
    /\ pc = "off"
    /\ port = StartPort
    /\ probes = <<>>
    /\ held = {}
    /\ selected = NoPort
    /\ cwd = LaunchDir
    /\ httpd = NoPort
    /\ exitStatus = Running
    /\ exitFrom = NoExit
    /\ busy = {}
    /\ envSteps = 0
    /\ reqPath = <<>>
    /\ wire = <<>>
    /\ opened = <<>>
    /\ openResult = "none"

GenStart(jobs) ==
    /\ ServeIdle
    /\ gpc = "start"
    /\ job \in jobs
    /\ triangles = <<>>
    /\ filename = <<>>
    /\ lines = <<>>
    /\ normals = <<>>
    /\ ti = 0

GenInit == GenStart(Jobs)
NormalInit == GenStart(NormalJobs)

Built(mesh) ==
    /\ triangles' = mesh
    /\ gpc' = "built"
    /\ UNCHANGED <<job, filename, lines, normals, ti>>
    /\ UNCHANGED serveVars

call_create_hexagon_triangles ==
    /\ gpc = "start"
    /\ job.kind = "hexagon"
    /\ Built(create_hexagon_triangles(job.radius, job.height))

call_create_simple_tree_triangles ==
    /\ gpc = "start"
    /\ job.kind = "tree"
    /\ Built(create_simple_tree_triangles)

call_create_simple_rock_triangles ==
    /\ gpc = "start"
    /\ job.kind = "rock"
    /\ Built(create_simple_rock_triangles)

\* a caller's own mesh
given_triangles ==
    /\ gpc = "start"
    /\ job.kind = "given"
    /\ Built(job.tris)

\* write_stl_ascii(filename, triangles): open(filename, 'w') and the header
\* line; an OSError of open() is not caught.
write_stl_ascii_open ==
    /\ gpc = "built"
    /\ filename' = job.filename
    /\ \/ /\ job.writable
          /\ lines' = <<Line("solid", Basename(job.filename), <<>>)>>
          /\ ti' = 1
          /\ gpc' = "facets"
       \/ /\ ~job.writable
          /\ gpc' = "raised"
          /\ UNCHANGED <<lines, ti>>
    /\ UNCHANGED <<job, triangles, normals>>
    /\ UNCHANGED serveVars

\* one iteration of "for triangle in triangles"
write_stl_ascii_facet ==
    /\ gpc = "facets"
    /\ ti <= Len(triangles)
    /\ LET triangle == triangles[ti]
           normal == Cross(Vec(triangle[1], triangle[2]), Vec(triangle[1], triangle[3]))
       IN  /\ lines' = lines \o FacetBlock(triangle)
           /\ normals' = Append(normals, [triangle |-> triangle, cross |-> normal,
                                          length |-> Length(normal),
                                          normal |-> FacetNormal(triangle)])
    /\ ti' = ti + 1
    /\ UNCHANGED <<gpc, job, triangles, filename>>
    /\ UNCHANGED serveVars

\* the footer line, and the with statement closes the file
write_stl_ascii_close ==
    /\ gpc = "facets"
    /\ ti > Len(triangles)
    /\ lines' = Append(lines, Line("endsolid", Basename(filename), <<>>))
    /\ gpc' = "done"
    /\ UNCHANGED <<job, triangles, filename, normals, ti>>
    /\ UNCHANGED serveVars

GenNext ==
    \/ call_create_hexagon_triangles
    \/ call_create_simple_tree_triangles
    \/ call_create_simple_rock_triangles
    \/ given_triangles
    \/ write_stl_ascii_open
    \/ write_stl_ascii_facet
    \/ write_stl_ascii_close

GenSpec == GenInit /\ [][GenNext]_vars

NormalNext ==
    \/ given_triangles
    \/ write_stl_ascii_open
    \/ write_stl_ascii_facet
    \/ write_stl_ascii_close

NormalSpec == NormalInit /\ [][NormalNext]_vars


(***************************************************************************)
(* Claims about serve.py, checked under Spec (C1, C5: under ServeSpec).    *)
(***************************************************************************)
StatusCodes(w) ==
    LET st == SelectSeq(w, LAMBDA x : x.kind = "status")
    IN  [i \in 1..Len(st) |-> st[i].code]

HasCors(w) ==
    \E i \in 1..Len(w) :
        /\ w[i].kind = "header"
        /\ w[i].name = "Access-Control-Allow-Origin"
        /\ w[i].value = "*"

SetMin(S) == CHOOSE x \in S : \A y \in S : x <= y

IsUnder(f, dir) == Len(f) > Len(dir) /\ SubSeq(f, 1, Len(dir)) = dir

\* C1: a GET for a path ending in '.stl' whose file does not exist is answered
\* with status 404 as the first and only status line, with the CORS header,
\* and the server goes on serving (it leaves serving only by an interrupt).
C1_MissingStlIs404 ==
    (EndsWithStl(reqPath) /\ openResult = "ENOENT") =>
        /\ StatusCodes(wire) = <<404>>
        /\ HasCors(wire)
        /\ pc = "serving" \/ exitFrom = ExitInfo("serving", "KeyboardInterrupt")

\* C2: find_free_port tests start, start+1, ... in ascending order; what it
\* returns is the one port whose transient bind succeeded, every lower port of
\* the window was tested and failed, the result lies in the window, and the
\* test socket is closed when it returns. With no other process interfering
\* during the scan, the result is the smallest free port of the window.
C2_ScanReturnsFirstBindable ==
    /\ \A i \in 1..Len(probes) : probes[i].port = StartPort + i - 1
    /\ pc = "scan" =>
          /\ selected = NoPort
          /\ port = StartPort + Len(probes)
          /\ \A i \in 1..Len(probes) : ~probes[i].ok
    /\ selected # NoPort =>
          /\ Len(probes) >= 1
          /\ \A i \in 1..Len(probes) : probes[i].ok <=> (i = Len(probes))
          /\ selected = probes[Len(probes)].port
          /\ selected \in Range
          /\ held \subseteq {httpd}
          /\ pc \in {"chdir", "create"} => held = {}
          /\ envSteps = 0 => selected = SetMin(Range \ busy)

\* C2 witness: only 8005 is free among 8000..8009, nothing interferes, and
\* the scan has returned 8005.
C2_Witness ==
    /\ pc = "chdir"
    /\ envSteps = 0
    /\ (8000..8009) \ busy = {8005}
    /\ selected = 8005
    /\ Len(probes) = 6

\* C3: when no port of the window can be bound, find_free_port gives up after
\* exactly 100 attempts, one per port of the window, and main exits with
\* status 1 having neither changed directory nor created a server nor served;
\* the scan never makes a 101st attempt.
C3_ExhaustionExitsOne ==
    /\ Len(probes) <= ScanWindow
    /\ exitFrom.why = "no free port" =>
          /\ pc = "exited"
          /\ exitFrom.at = "scan"
          /\ exitStatus = 1
          /\ Len(probes) = ScanWindow
          /\ \A i \in 1..Len(probes) : ~probes[i].ok
          /\ {probes[i].port : i \in 1..Len(probes)} = Range
          /\ selected = NoPort
          /\ cwd = LaunchDir
          /\ httpd = NoPort
          /\ held = {}
          /\ reqPath = <<>> /\ wire = <<>>
    /\ (pc = "exited" /\ envSteps = 0 /\ busy = Range
          /\ exitFrom.why # "KeyboardInterrupt") =>
          exitFrom = ExitInfo("scan", "no free port")

\* C3 witness: every port of the window was busy throughout and the process
\* has exited from the scan.
C3_Witness ==
    /\ pc = "exited"
    /\ exitFrom.why = "no free port"
    /\ envSteps = 0
    /\ busy = Range
    /\ Len(probes) = ScanWindow

\* C4: the process is port-scanning, then serving; a scan that selected port p
\* is followed by the server bound to p, and the process ends only from
\* serving on an interrupt with status 0, or from a failed scan with status 1.
C4_TwoStatesCleanExit ==
    /\ pc = "serving" => httpd = selected /\ selected # NoPort
    /\ pc = "exited" =>
          \/ /\ exitFrom = ExitInfo("serving", "KeyboardInterrupt")
             /\ exitStatus = 0
          \/ /\ exitFrom = ExitInfo("scan", "no free port")
             /\ exitStatus = 1

\* C5: whatever the request path, a file whose bytes the '.stl' branch sends
\* lies under the server's working directory.
C5_StlStaysUnderCwd ==
    openResult = "ok" => IsUnder(opened, cwd)

(***************************************************************************)
(* Claims about generate_simple_stl.py, checked under GenSpec (C7: under   *)
(* NormalSpec).                                                            *)
(***************************************************************************)
\* C6: write_stl_ascii writes 7n+2 lines for n triangles: 'solid <basename>'
\* first, 'endsolid <basename>' last, and per triangle, in input order, one
\* block of a normal line, 'outer loop', the triangle's three vertices in
\* their order, 'endloop' and 'endfacet'.  While it writes, the header and
\* the blocks of the triangles done so far are there; a failed open writes
\* nothing.
C6_Block(k) ==
    LET b == 1 + 7 * (k - 1)
    IN  /\ lines[b + 1].kind = "facet normal"
        /\ Len(lines[b + 1].vals) = 3
        /\ lines[b + 2] = Line("outer loop", "", <<>>)
        /\ \A j \in 1..3 :
              lines[b + 2 + j] =
                 Line("vertex", "", [i \in 1..3 |-> Fmt6(triangles[k][j][i])])
        /\ lines[b + 6] = Line("endloop", "", <<>>)
        /\ lines[b + 7] = Line("endfacet", "", <<>>)

C6_WriterOutput ==
    /\ gpc \in {"start", "built", "raised"} => lines = <<>>
    /\ gpc = "facets" =>
          /\ Len(lines) = 7 * (ti - 1) + 1
          /\ \A k \in 1..(ti - 1) : C6_Block(k)
    /\ gpc = "done" =>
          /\ Len(lines) = 7 * Len(triangles) + 2
          /\ lines[1] = Line("solid", job.filename[Len(job.filename)], <<>>)
          /\ lines[Len(lines)] = Line("endsolid", job.filename[Len(job.filename)], <<>>)
          /\ \A k \in 1..Len(triangles) : C6_Block(k)

\* C6 witness: a file in a subdirectory written from two different triangles,
\* the first with three different vertices.
C6_Witness ==
    /\ gpc = "done"
    /\ job.kind = "given"
    /\ Len(job.filename) > 1
    /\ Len(triangles) = 2
    /\ triangles[1] # triangles[2]
    /\ triangles[1][1] # triangles[1][3]
    /\ Len(lines) = 16

\* the cross product (p1-p0) x (p2-p0) in exact arithmetic, in squared units
ExactCross(t) ==
    LET a == [i \in 1..3 |-> t[2][i] - t[1][i]]
        b == [i \in 1..3 |-> t[3][i] - t[1][i]]
    IN  <<a[2] * b[3] - a[3] * b[2], a[3] * b[1] - a[1] * b[3], a[1] * b[2] - a[2] * b[1]>>

Dot(a, b) == a[1] * b[1] + a[2] * b[2] + a[3] * b[3]

\* |n| is 1 to within an eighth
NearUnit(n) == 8 * Abs(Dot(n, n) - One * One) <= One * One

\* n has the direction of c: no component of n points against c's, and some
\* component points along it
SameDirection(n, c) ==
    /\ \A i \in 1..3 : (c[i] > 0 => n[i] >= 0) /\ (c[i] < 0 => n[i] <= 0)
    /\ \E i \in 1..3 : (c[i] > 0 /\ n[i] > 0) \/ (c[i] < 0 /\ n[i] < 0)

\* C7: the normal written for a triangle is (0,0,1) when the cross product
\* (p1-p0) x (p2-p0) is the zero vector; otherwise it is finite, not the zero
\* vector, of unit length, and has the cross product's direction.
C7_NormalOfCross ==
    \A k \in 1..Len(normals) :
        LET c == ExactCross(normals[k].triangle)
            n == normals[k].normal
        IN  IF c = <<0, 0, 0>> THEN n = <<0, 0, One>>
            ELSE /\ \A i \in 1..3 : IsFinite(n[i])
                 /\ n # <<0, 0, 0>>
                 /\ SameDirection(n, c)
                 /\ NearUnit(n)

WellFormed(mesh) ==
    \A k \in 1..Len(mesh) :
        /\ Len(mesh[k]) = 3
        /\ \A j \in 1..3 : Len(mesh[k][j]) = 3

VerticesOf(mesh, from, to) == {mesh[k][j] : k \in from..to, j \in 1..3}

\* C8: create_hexagon_triangles returns 24 triangles for every radius and
\* height (6 of the bottom cap around the bottom centre, 6 of the top cap
\* around the top centre, 12 of the sides); create_simple_tree_triangles 16
\* (12 of the trunk, 4 of the canopy); create_simple_rock_triangles 6 (2 of
\* the base, 4 through the apex); each triangle has three vertices of three
\* coordinates.
C8_TriangleCounts ==
    gpc = "built" =>
        /\ job.kind = "hexagon" =>
              /\ Len(triangles) = 24
              /\ WellFormed(triangles)
              /\ \A k \in 1..6 : triangles[k][1] = <<0, 0, 0>>
              /\ \A v \in VerticesOf(triangles, 1, 6) : v[3] = 0
              /\ \A k \in 7..12 : triangles[k][1] = <<0, 0, job.height>>
              /\ \A v \in VerticesOf(triangles, 7, 12) : v[3] = job.height
              /\ \A k \in 13..24 :
                    {triangles[k][j][3] : j \in 1..3} = {0, job.height}
        /\ job.kind = "tree" =>
              /\ Len(triangles) = 16
              /\ WellFormed(triangles)
              /\ VerticesOf(triangles, 1, 12) = {trunk_verts[i] : i \in 1..8}
              /\ VerticesOf(triangles, 13, 16) = {leaves_verts[i] : i \in 1..4}
        /\ job.kind = "rock" =>
              /\ Len(triangles) = 6
              /\ WellFormed(triangles)
              /\ \A v \in VerticesOf(triangles, 1, 2) : v[3] = 0
              /\ \A k \in 3..6 : triangles[k][2] = top

\* C8 witness: a prism built with a negative radius and height zero.
C8_Witness ==
    /\ gpc = "built"
    /\ job.kind = "hexagon"
    /\ job.radius < 0
    /\ job.height = 0
    /\ Len(triangles) = 24

\* C9: for radius > 0, edge 0 of the hexagon, from perimeter vertex 0 to
\* perimeter vertex 1, points in the positive X direction: its x component is
\* positive and its y component zero.  (Bottom triangle 0 is
\* [center_bottom, hex_bottom[1], hex_bottom[0]].)
C9_Edge0PointsPlusX ==
    (gpc = "built" /\ job.kind = "hexagon" /\ job.radius > 0) =>
        LET v0 == triangles[1][3]
            v1 == triangles[1][2]
        IN  /\ v1[1] - v0[1] > 0
            /\ v1[2] - v0[2] = 0

DirectedEdges(t) == {<<t[1], t[2]>>, <<t[2], t[3]>>, <<t[3], t[1]>>}

UsesOf(mesh, e) == Cardinality({k \in 1..Len(mesh) : e \in DirectedEdges(mesh[k])})

\* every edge is used once in each direction
ClosedAndOriented(mesh) ==
    \A k \in 1..Len(mesh) : \A e \in DirectedEdges(mesh[k]) :
        /\ e[1] # e[2]
        /\ UsesOf(mesh, e) = 1
        /\ UsesOf(mesh, <<e[2], e[1]>>) = 1

\* C10: the mesh a builder returns (the prism for a positive radius and
\* height, the tree's trunk and canopy, the rock) is closed and consistently
\* oriented: every edge belongs to exactly two triangles, which traverse it
\* in opposite directions.
C10_ClosedConsistentMesh ==
    (/\ gpc = "built"
     /\ \/ job.kind \in {"tree", "rock"}
        \/ job.kind = "hexagon" /\ job.radius > 0 /\ job.height > 0)
      => ClosedAndOriented(triangles)

====
